---- MODULE Spec2Model ----
(***************************************************************************)
(* Model of package prometheus (src/prometheus.go): the lazily registered  *)
(* metric families of the client, server, publish and subscribe groups,    *)
(* the wrapper constructors that register them under the package mutex,    *)
(* and the decorated operations that count and time the wrapped calls.     *)
(***************************************************************************)
EXTENDS Naturals, Sequences, FiniteSets, TLC

\* ------------------------------------------------------------------ bounds
\* goroutines that construct wrappers and invoke decorated operations
NThreads == 2
\* calls the embedding program makes over the whole run: wrapper constructors,
\* decorated operations, assignments to the exported prefixes
MaxCalls == 3

Threads == 1..NThreads
NoThread == 0
Nil == "nil"
\* the nil value of a *CounterVec, *SummaryVec or *HistogramVec variable
NilVec == [nil |-> TRUE]

VARIABLES
  DefaultMetricPrefix, \* package variable, prefix of every metric name
  DefaultLabelPrefix,  \* package variable, prefix of every label name
  slot,                \* the twelve package-level *Vec variables, Nil or a vector
  mu,                  \* holder of the package mutex, NoThread when unlocked
  registry,            \* prometheus.DefaultRegisterer: registered descriptors by name
  exited,              \* the process was ended by logger.Fatal
  pc,                  \* per goroutine: position in a constructor or a decorated operation
  frame,               \* per goroutine: locals of the running constructor
  wrappers,            \* the wrappers the constructors have returned
  last,                \* the last decorated invocation: what it was given and what it returned
  built,               \* per slot: number of vectors ever constructed for it
  attempts,            \* per slot: number of Register calls made for it
  registered,          \* per slot: number of Register calls that returned nil
  identity,            \* the option list this process passes to its constructors
  ncalls               \* calls the embedding program has made

vars == <<DefaultMetricPrefix, DefaultLabelPrefix, slot, mu, registry, exited, pc,
          frame, wrappers, last, built, attempts, registered, identity, ncalls>>

\* ------------------------------------------------------------ formatting
\* fmt.Sprintf("%s%s", a, b)
Sprintf(a, b) == a \o b

\* fmt.Sprintf("%s.%s", req.Service(), req.Endpoint())
SprintfDot(a, b) == a \o "." \o b

\* values the embedding program may assign to the two exported prefixes
MetricPrefixes == {"micro_", "micro_server_"}
LabelPrefixes == {"micro_", "svc_"}

\* ------------------------------------------------------- metric families
Groups == {"client", "server", "publish", "subscribe"}

\* the three package variables of each group, in the order the code builds them
SlotsOf(g) ==
  CASE g = "client" ->
         <<"clientOpsCounter", "clientTimeCounterSummary", "clientTimeCounterHistogram">>
    [] g = "server" ->
         <<"serverOpsCounter", "serverTimeCounterSummary", "serverTimeCounterHistogram">>
    [] g = "publish" ->
         <<"publishOpsCounter", "publishTimeCounterSummary", "publishTimeCounterHistogram">>
    [] g = "subscribe" ->
         <<"subscribeOpsCounter", "subscribeTimeCounterSummary",
           "subscribeTimeCounterHistogram">>

SlotNames == UNION {{SlotsOf(g)[i] : i \in 1..3} : g \in Groups}

OpsSlots == {SlotsOf(g)[1] : g \in Groups}

GroupOfSlot(s) == CHOOSE g \in Groups : \E i \in 1..3 : SlotsOf(g)[i] = s

\* the Name of each family without its prefix
NameSuffix(s) ==
  CASE s = "clientOpsCounter" -> "request_total"
    [] s = "clientTimeCounterSummary" -> "latency_microseconds"
    [] s = "clientTimeCounterHistogram" -> "request_duration_seconds"
    [] s = "serverOpsCounter" -> "server_request_total"
    [] s = "serverTimeCounterSummary" -> "server_latency_microseconds"
    [] s = "serverTimeCounterHistogram" -> "server_request_duration_seconds"
    [] s = "publishOpsCounter" -> "publish_message_total"
    [] s = "publishTimeCounterSummary" -> "publish_message_latency_microseconds"
    [] s = "publishTimeCounterHistogram" -> "publish_message_duration_seconds"
    [] s = "subscribeOpsCounter" -> "subscribe_message_total"
    [] s = "subscribeTimeCounterSummary" -> "subscribe_message_latency_microseconds"
    [] s = "subscribeTimeCounterHistogram" -> "subscribe_message_duration_seconds"

\* the Help of each family
HelpOf(s) ==
  CASE s = "clientOpsCounter" -> "Requests processed, partitioned by endpoint and status"
    [] s = "clientTimeCounterSummary" ->
         "Request latencies in microseconds, partitioned by endpoint"
    [] s = "clientTimeCounterHistogram" -> "Request time in seconds, partitioned by endpoint"
    [] s = "serverOpsCounter" -> "Requests processed, partitioned by endpoint and status"
    [] s = "serverTimeCounterSummary" ->
         "Request latencies in microseconds, partitioned by endpoint"
    [] s = "serverTimeCounterHistogram" -> "Request time in seconds, partitioned by endpoint"
    [] s = "publishOpsCounter" -> "Messages sent, partitioned by endpoint and status"
    [] s = "publishTimeCounterSummary" ->
         "Message latencies in microseconds, partitioned by endpoint"
    [] s = "publishTimeCounterHistogram" ->
         "Message publish time in seconds, partitioned by endpoint"
    [] s = "subscribeOpsCounter" -> "Messages processed, partitioned by endpoint and status"
    [] s = "subscribeTimeCounterSummary" ->
         "Message processing latencies in microseconds, partitioned by endpoint"
    [] s = "subscribeTimeCounterHistogram" ->
         "Request time in seconds, partitioned by endpoint"

\* the label names a family is built with: the ops counters add "status"
LabelNames(s, lp) ==
  LET base == <<Sprintf(lp, "name"), Sprintf(lp, "version"), Sprintf(lp, "id"),
                Sprintf(lp, "endpoint")>>
  IN  IF s \in OpsSlots THEN Append(base, Sprintf(lp, "status")) ELSE base

NoSamples == [k \in {} |-> 0]

\* prometheus.NewCounterVec / NewSummaryVec / NewHistogramVec as called for slot s:
\* a new vector, distinct from every vector built for s before, with no samples
NewVec(s) ==
  [id      |-> <<s, built[s] + 1>>,
   name    |-> Sprintf(DefaultMetricPrefix, NameSuffix(s)),
   labels  |-> LabelNames(s, DefaultLabelPrefix),
   help    |-> HelpOf(s),
   samples |-> NoSamples]

\* --------------------------------------------------------------- registry
\* prometheus.DefaultRegisterer.Register(c) on registry reg, for a vector c with
\* one descriptor: an error when a descriptor of the same name with other label
\* names or help is registered, AlreadyRegisteredError when the same descriptor
\* is, else nil
RegisterResult(reg, c) ==
  IF c.name \in DOMAIN reg
    THEN IF reg[c.name].labels = c.labels /\ reg[c.name].help = c.help
           THEN "AlreadyRegisteredError"
           ELSE "error"
    ELSE Nil

\* the registry after Register(c): c is added when Register returns nil
RegistryAfter(reg, c) ==
  IF RegisterResult(reg, c) = Nil
    THEN [n \in DOMAIN reg \cup {c.name} |->
            IF n = c.name THEN [labels |-> c.labels, help |-> c.help, id |-> c.id]
                          ELSE reg[n]]
    ELSE reg

\* ---------------------------------------------------------------- options
DefaultOptions == [Name |-> "", Version |-> "", ID |-> "", Context |-> "background"]

\* Option values: ServiceName, ServiceVersion, ServiceID, Context
ServiceName(name) == [field |-> "Name", value |-> name]
ServiceVersion(version) == [field |-> "Version", value |-> version]
ServiceID(id) == [field |-> "ID", value |-> id]
Context(ctx) == [field |-> "Context", value |-> ctx]

\* for _, o := range opts { o(&options) }
RECURSIVE ApplyOptions(_, _)
ApplyOptions(options, opts) ==
  IF opts = <<>> THEN options
  ELSE ApplyOptions([options EXCEPT ![Head(opts).field] = Head(opts).value], Tail(opts))

\* the option lists the constructors are called with
OptionLists ==
  { <<>>,
    <<ServiceName("svc"), ServiceVersion("v1"), ServiceID("i1"), Context("ctx")>> }

\* ------------------------------------------------------------ constructors
Ctors == {"NewClientWrapper", "NewCallWrapper", "NewHandlerWrapper", "NewSubscriberWrapper"}

\* NewClientWrapper without its call of registerPublishMetrics
RegistersOfWithoutPublish(ctor) ==
  CASE ctor = "NewClientWrapper" -> <<"client">>
    [] ctor = "NewCallWrapper" -> <<"client">>
    [] ctor = "NewHandlerWrapper" -> <<"server">>
    [] ctor = "NewSubscriberWrapper" -> <<"subscribe">>

\* the register functions a constructor calls, in order, named by their group
RegistersOf(ctor) ==
  CASE ctor = "NewClientWrapper" -> <<"client", "publish">>
    [] ctor = "NewCallWrapper" -> <<"client">>
    [] ctor = "NewHandlerWrapper" -> <<"server">>
    [] ctor = "NewSubscriberWrapper" -> <<"subscribe">>

NoFrame == [ctor |-> Nil, options |-> DefaultOptions, groups |-> <<>>, i |-> 0, err |-> Nil]

NoInv == [shape |-> Nil]

Init ==
  /\ DefaultMetricPrefix = "micro_"
  /\ DefaultLabelPrefix = "micro_"
  /\ slot = [s \in SlotNames |-> NilVec]
  /\ mu = NoThread
  /\ registry = [n \in {} |-> Nil]
  /\ exited = FALSE
  /\ pc = [t \in Threads |-> "idle"]
  /\ frame = [t \in Threads |-> NoFrame]
  /\ wrappers = {}
  /\ last = NoInv
  /\ built = [s \in SlotNames |-> 0]
  /\ attempts = [s \in SlotNames |-> 0]
  /\ registered = [s \in SlotNames |-> 0]
  /\ identity \in OptionLists
  /\ ncalls = 0

\* the slot the running register function of t is working on
CurSlot(t) == SlotsOf(Head(frame[t].groups))[frame[t].i]

AllBuilt(g) == \A i \in 1..3 : slot[SlotsOf(g)[i]] # NilVec

\* NewClientWrapper / NewCallWrapper / NewHandlerWrapper / NewSubscriberWrapper,
\* up to the call of the first register function: the options are applied
CtorBegin(t) ==
  /\ ~exited
  /\ pc[t] = "idle"
  /\ ncalls < MaxCalls
  /\ \E ctor \in Ctors :
       frame' = [frame EXCEPT ![t] =
                   [ctor |-> ctor, options |-> ApplyOptions(DefaultOptions, identity),
                    groups |-> RegistersOf(ctor), i |-> 1, err |-> Nil]]
  /\ pc' = [pc EXCEPT ![t] = "lock"]
  /\ ncalls' = ncalls + 1
  /\ UNCHANGED <<DefaultMetricPrefix, DefaultLabelPrefix, slot, mu, registry, exited,
                 wrappers, last, built, attempts, registered, identity>>

\* Lock without mutual exclusion: the caller goes on whoever holds the mutex
LockWithoutExclusion(t) ==
  /\ ~exited
  /\ pc[t] = "lock"
  /\ mu' = t
  /\ pc' = [pc EXCEPT ![t] = "check"]
  /\ UNCHANGED <<DefaultMetricPrefix, DefaultLabelPrefix, slot, registry, exited, frame,
                 wrappers, last, built, attempts, registered, identity, ncalls>>

\* Lock taken only when a family of the group is still nil (double-checked locking)
LockIfNil(t) ==
  /\ ~exited
  /\ pc[t] = "lock"
  /\ IF \A i \in 1..3 : slot[SlotsOf(Head(frame[t].groups))[i]] # NilVec
       THEN mu' = mu
       ELSE mu = NoThread /\ mu' = t
  /\ pc' = [pc EXCEPT ![t] = "check"]
  /\ UNCHANGED <<DefaultMetricPrefix, DefaultLabelPrefix, slot, registry, exited, frame,
                 wrappers, last, built, attempts, registered, identity, ncalls>>

\* mu.Lock() at the head of a register function
Lock(t) ==
  /\ ~exited
  /\ pc[t] = "lock"
  /\ mu = NoThread
  /\ mu' = t
  /\ pc' = [pc EXCEPT ![t] = "check"]
  /\ UNCHANGED <<DefaultMetricPrefix, DefaultLabelPrefix, slot, registry, exited, frame,
                 wrappers, last, built, attempts, registered, identity, ncalls>>

\* a guard that always constructs
NeedsConstructAlways(s) == TRUE

\* a guard that constructs again when the metric prefix has changed
NeedsConstructOnNewPrefix(s) ==
  slot[s] = NilVec \/ slot[s].name # Sprintf(DefaultMetricPrefix, NameSuffix(s))

\* the test `if <slot> == nil` that guards each construction
NeedsConstruct(s) == slot[s] = NilVec

\* the three `if <slot> == nil { ... }` in turn, from the slot at hand: on to the
\* construction of the first that is nil, or past the third to the registration loop
Check(t) ==
  /\ ~exited
  /\ pc[t] = "check"
  /\ LET g    == Head(frame[t].groups)
         todo == {i \in frame[t].i..3 : NeedsConstruct(SlotsOf(g)[i])}
     IN  IF todo # {}
           THEN /\ pc' = [pc EXCEPT ![t] = "construct"]
                /\ frame' = [frame EXCEPT ![t].i = CHOOSE i \in todo : \A k \in todo : i <= k]
           ELSE /\ pc' = [pc EXCEPT ![t] = "register"]
                /\ frame' = [frame EXCEPT ![t].i = 1]
  /\ UNCHANGED <<DefaultMetricPrefix, DefaultLabelPrefix, slot, mu, registry, exited,
                 wrappers, last, built, attempts, registered, identity, ncalls>>

\* <slot> = prometheus.NewCounterVec(...) (or NewSummaryVec, NewHistogramVec)
Construct(t) ==
  /\ ~exited
  /\ pc[t] = "construct"
  /\ slot' = [slot EXCEPT ![CurSlot(t)] = NewVec(CurSlot(t))]
  /\ built' = [built EXCEPT ![CurSlot(t)] = @ + 1]
  /\ IF frame[t].i < 3
       THEN /\ pc' = [pc EXCEPT ![t] = "check"]
            /\ frame' = [frame EXCEPT ![t].i = @ + 1]
       ELSE /\ pc' = [pc EXCEPT ![t] = "register"]
            /\ frame' = [frame EXCEPT ![t].i = 1]
  /\ UNCHANGED <<DefaultMetricPrefix, DefaultLabelPrefix, mu, registry, exited,
                 wrappers, last, attempts, registered, identity, ncalls>>

\* an error test that treats every error as fatal
IsFatalOnAnyError(err) == err # Nil

\* the error test of the registration loop: logger.Fatal unless the error is nil
\* or an AlreadyRegisteredError
IsFatal(err) == err # Nil /\ err # "AlreadyRegisteredError"

\* a register function that returns without unlocking
NotReleased(t) == t

\* the mutex as the deferred mu.Unlock() leaves it
Released(t) == NoThread

\* one round of `for _, collector := range ... { Register(collector) ... }`:
\* logger.Fatal ends the process; after the third round the register function
\* returns, the deferred mu.Unlock() runs, and the constructor calls its next
\* register function or returns its wrapper, which holds the options by value
Register(t) ==
  /\ ~exited
  /\ pc[t] = "register"
  /\ LET s   == CurSlot(t)
         err == RegisterResult(registry, slot[s])
     IN  /\ registry' = RegistryAfter(registry, slot[s])
         /\ attempts' = [attempts EXCEPT ![s] = @ + 1]
         /\ registered' = [registered EXCEPT ![s] = IF err = Nil THEN @ + 1 ELSE @]
         /\ IF IsFatal(err)
              THEN /\ exited' = TRUE
                   /\ frame' = [frame EXCEPT ![t].err = err]
                   /\ UNCHANGED <<mu, pc, wrappers>>
              ELSE IF frame[t].i < 3
                THEN /\ frame' = [frame EXCEPT ![t].err = err, ![t].i = @ + 1]
                     /\ UNCHANGED <<exited, mu, pc, wrappers>>
                ELSE /\ mu' = Released(t)
                     /\ exited' = exited
                     /\ IF Len(frame[t].groups) > 1
                          THEN /\ pc' = [pc EXCEPT ![t] = "lock"]
                               /\ frame' = [frame EXCEPT ![t].groups = Tail(@),
                                                         ![t].i = 1, ![t].err = Nil]
                               /\ wrappers' = wrappers
                          ELSE /\ pc' = [pc EXCEPT ![t] = "idle"]
                               /\ frame' = [frame EXCEPT ![t] = [NoFrame EXCEPT !.err = err]]
                               /\ wrappers' = wrappers \cup
                                    {[ctor |-> frame[t].ctor, options |-> frame[t].options]}
  /\ UNCHANGED <<DefaultMetricPrefix, DefaultLabelPrefix, slot, last, built,
                 identity, ncalls>>

InCtor(t) == pc[t] \in {"lock", "check", "construct", "register"}

\* the embedding program assigns the exported prefixes; it does so while no
\* constructor runs, since the register functions read them without the
\* program being able to take mu
SetPrefixes ==
  /\ ~exited
  /\ ncalls < MaxCalls
  /\ \A t \in Threads : ~InCtor(t)
  /\ \E mp \in MetricPrefixes, lp \in LabelPrefixes :
       /\ <<mp, lp>> # <<DefaultMetricPrefix, DefaultLabelPrefix>>
       /\ DefaultMetricPrefix' = mp
       /\ DefaultLabelPrefix' = lp
  /\ ncalls' = ncalls + 1
  /\ UNCHANGED <<slot, mu, registry, exited, pc, frame, wrappers, last, built, attempts,
                 registered, identity>>

\* ------------------------------------------------------ decorated operations
Shapes == {"CallFunc", "Call", "Stream", "Publish", "HandlerFunc", "SubscriberFunc"}

\* the decorated operations each constructor's return value offers
ShapesOf(ctor) ==
  CASE ctor = "NewClientWrapper" -> {"Call", "Stream", "Publish"}
    [] ctor = "NewCallWrapper" -> {"CallFunc"}
    [] ctor = "NewHandlerWrapper" -> {"HandlerFunc"}
    [] ctor = "NewSubscriberWrapper" -> {"SubscriberFunc"}

\* the group whose three families a decorated operation updates
GroupOfShape(shape) ==
  CASE shape \in {"CallFunc", "Call", "Stream"} -> "client"
    [] shape = "Publish" -> "publish"
    [] shape = "HandlerFunc" -> "server"
    [] shape = "SubscriberFunc" -> "subscribe"

Requests == {[Service |-> "Greeter", Endpoint |-> "Hello"]}
Messages == {[Topic |-> "events"]}
Contexts == {"ctx"}

\* the argument tuples a decorated operation may be called with
ArgsOf(shape) ==
  IF shape \in {"Publish", "SubscriberFunc"}
    THEN {[ctx |-> c, msg |-> m] : c \in Contexts, m \in Messages}
    ELSE {[ctx |-> c, req |-> r] : c \in Contexts, r \in Requests}

\* the endpoint label value each decorated operation derives from its argument
EndpointOf(shape, args) ==
  CASE shape \in {"CallFunc", "Call", "Stream"} ->
         SprintfDot(args.req.Service, args.req.Endpoint)
    [] shape = "HandlerFunc" -> args.req.Endpoint
    [] shape \in {"Publish", "SubscriberFunc"} -> args.msg.Topic

\* what the wrapped operation may do: return (Stream with a stream handle and an
\* error, the others with an error), or panic
ResultsOf(shape) ==
  { [kind |-> "return", value |-> IF shape = "Stream" THEN "stream" ELSE Nil, err |-> Nil],
    [kind |-> "return", value |-> Nil, err |-> "error"],
    [kind |-> "return", value |-> Nil, err |-> "context canceled"],
    [kind |-> "panic", value |-> Nil, err |-> Nil] }

\* the panic of the decorator itself: a method call on a nil vector, or
\* WithLabelValues with a wrong number of label values
DecoratorPanic == [kind |-> "panic", value |-> "decorator", err |-> Nil]

\* seconds the timer may measure
Durations == {2}

\* the arguments the decorated operation hands to the wrapped one
ForwardArgs(args) == args

\* the status labels exchanged
StatusOfSwapped(err) == IF err = Nil THEN "failure" ELSE "success"

\* the status label: if err == nil { "success" } else { "failure" }
StatusOf(err) == IF err = Nil THEN "success" ELSE "failure"

\* w.options.Name, w.options.Version, w.options.ID, endpoint
LatencyLabels(options, endpoint) ==
  <<options.Name, options.Version, options.ID, endpoint>>

\* w.options.Name, w.options.Version, w.options.ID, endpoint, status
OpsLabels(options, endpoint, status) ==
  <<options.Name, options.Version, options.ID, endpoint, status>>

\* vec.WithLabelValues(lvs...) returns a metric rather than panicking
WithLabelValuesOk(vec, lvs) == vec # NilVec /\ Len(lvs) = Len(vec.labels)

\* CounterVec.WithLabelValues(lvs...).Inc()
Inc(vec, lvs) ==
  [vec EXCEPT !.samples =
     [k \in DOMAIN @ \cup {lvs} |->
        IF k = lvs THEN (IF lvs \in DOMAIN @ THEN @[lvs] + 1 ELSE 1) ELSE @[k]]]

\* SummaryVec / HistogramVec .WithLabelValues(lvs...).Observe(x): the sample's
\* count and sum
Observe(vec, lvs, x) ==
  [vec EXCEPT !.samples =
     [k \in DOMAIN @ \cup {lvs} |->
        IF k = lvs
          THEN (IF lvs \in DOMAIN @
                  THEN [count |-> @[lvs].count + 1, sum |-> @[lvs].sum + x]
                  ELSE [count |-> 1, sum |-> x])
          ELSE @[k]]]

\* the ops counter is incremented after the wrapped operation returns
IncrementsOps(res) == res.kind = "return"

\* the observation made after the wrapped operation returns instead of deferred
ObservesLatencyOnReturn(res) == res.kind = "return"

\* the deferred timer.ObserveDuration() runs however the function is left
ObservesLatency(res) == TRUE

\* a decorator that swallows the error
ReturnedWithoutError(res) == [res EXCEPT !.err = Nil]

\* what the decorated operation hands back: the wrapped operation's result
Returned(res) == res

\* CallFunc, Call, Stream, Publish, and the closures of HandlerFunc and
\* SubscriberFunc: the wrapped operation is called with the arguments given, the
\* ops counter is incremented if it returns, and the deferred timer observation
\* records the elapsed time in the summary (microseconds) and the histogram (seconds)
Invoke(t) ==
  /\ ~exited
  /\ pc[t] = "idle"
  /\ ncalls < MaxCalls
  /\ \E w \in wrappers :
     \E shape \in ShapesOf(w.ctor) :
     \E args \in ArgsOf(shape), res \in ResultsOf(shape), v \in Durations :
       LET g        == GroupOfShape(shape)
           o        == SlotsOf(g)[1]
           sm       == SlotsOf(g)[2]
           h        == SlotsOf(g)[3]
           endpoint == EndpointOf(shape, args)
           opsl     == OpsLabels(w.options, endpoint, StatusOf(res.err))
           latl     == LatencyLabels(w.options, endpoint)
           us       == v * 1000000
           incOk    == IncrementsOps(res) /\ WithLabelValuesOk(slot[o], opsl)
           incPanic == IncrementsOps(res) /\ ~WithLabelValuesOk(slot[o], opsl)
           sumOk    == ObservesLatency(res) /\ WithLabelValuesOk(slot[sm], latl)
           sumPanic == ObservesLatency(res) /\ ~WithLabelValuesOk(slot[sm], latl)
           hOk      == sumOk /\ WithLabelValuesOk(slot[h], latl)
           hPanic   == sumOk /\ ~WithLabelValuesOk(slot[h], latl)
       IN  /\ slot' = [slot EXCEPT
                         ![o]  = IF incOk THEN Inc(@, opsl) ELSE @,
                         ![sm] = IF sumOk THEN Observe(@, latl, us) ELSE @,
                         ![h]  = IF hOk THEN Observe(@, latl, v) ELSE @]
           /\ last' = [shape |-> shape, options |-> w.options, given |-> args,
                       passed |-> ForwardArgs(args), wrapped |-> res,
                       returned |-> IF incPanic \/ sumPanic \/ hPanic
                                      THEN DecoratorPanic ELSE Returned(res)]
  /\ ncalls' = ncalls + 1
  /\ UNCHANGED <<DefaultMetricPrefix, DefaultLabelPrefix, mu, registry, exited, pc,
                 frame, wrappers, built, attempts, registered, identity>>

Next ==
  \/ \E t \in Threads : CtorBegin(t)
  \/ \E t \in Threads : Lock(t)
  \/ \E t \in Threads : Check(t)
  \/ \E t \in Threads : Construct(t)
  \/ \E t \in Threads : Register(t)
  \/ SetPrefixes
  \/ \E t \in Threads : Invoke(t)

Spec == Init /\ [][Next]_vars

\* fairness: a goroutine that can take a step of its constructor takes it, and a
\* goroutine waiting in mu.Lock() gets the mutex if it is released again and
\* again (sync.Mutex hands a starving waiter the mutex)
FairSpec ==
  /\ Spec
  /\ \A t \in Threads : WF_vars(Check(t) \/ Construct(t) \/ Register(t))
  /\ \A t \in Threads : SF_vars(Lock(t))

\* ------------------------------------------------------------------ claims
\* a step that is one decorated invocation
InvokeStep ==
  /\ ncalls' = ncalls + 1
  /\ pc' = pc
  /\ DefaultMetricPrefix' = DefaultMetricPrefix
  /\ DefaultLabelPrefix' = DefaultLabelPrefix

RECURSIVE SumOver(_, _)
SumOver(f, S) ==
  IF S = {} THEN 0
  ELSE LET k == CHOOSE x \in S : TRUE IN f[k] + SumOver(f, S \ {k})

\* the value of a counter vector at a label tuple, and over all label tuples
CountAt(vec, lvs) ==
  IF vec # NilVec /\ lvs \in DOMAIN vec.samples THEN vec.samples[lvs] ELSE 0
CountAll(vec) ==
  IF vec = NilVec THEN 0 ELSE SumOver(vec.samples, DOMAIN vec.samples)

\* the observations of a summary or histogram vector at a label tuple, and over all
ObsAt(vec, lvs) ==
  IF vec # NilVec /\ lvs \in DOMAIN vec.samples THEN vec.samples[lvs].count ELSE 0
SumAt(vec, lvs) ==
  IF vec # NilVec /\ lvs \in DOMAIN vec.samples THEN vec.samples[lvs].sum ELSE 0
OpsTotal == SumOver([s \in OpsSlots |-> CountAll(slot[s])], OpsSlots)

\* in this step the vector in slot s keeps every sample but the one at lvs
OtherSamplesKept(s, lvs) ==
  /\ DOMAIN slot[s].samples \subseteq DOMAIN slot'[s].samples
  /\ \A k \in DOMAIN slot'[s].samples \ {lvs} :
       k \in DOMAIN slot[s].samples /\ slot'[s].samples[k] = slot[s].samples[k]

\* the label tuple (name, version, id, endpoint) of an invocation record
TupleOf(r) ==
  <<r.options.Name, r.options.Version, r.options.ID, EndpointOf(r.shape, r.given)>>

\* the groups whose families each constructor has to leave constructed
EnsuredBy(ctor) ==
  CASE ctor = "NewClientWrapper" -> {"client", "publish"}
    [] ctor = "NewCallWrapper" -> {"client"}
    [] ctor = "NewHandlerWrapper" -> {"server"}
    [] ctor = "NewSubscriberWrapper" -> {"subscribe"}

\* C1: each family slot is constructed exactly once: never more than one vector is
\* built for a slot, a slot that holds a vector keeps that vector, and when a
\* constructor returns, the three slots of each of its groups hold a vector.
C1_ConstructedOnce ==
  /\ [](\A s \in SlotNames : built[s] <= 1 /\ (built[s] = 0 <=> slot[s] = NilVec))
  /\ [][ /\ \A s \in SlotNames :
              slot[s] # NilVec => slot'[s] # NilVec /\ slot'[s].id = slot[s].id
         /\ \A t \in Threads :
              pc[t] = "register" /\ pc'[t] = "idle" =>
                \A g \in EnsuredBy(frame[t].ctor) :
                  \A i \in 1..3 : slot'[SlotsOf(g)[i]] # NilVec ]_vars

\* two constructors of the client group ran one after the other while a third
\* call waits for the mutex: the second found the three slots constructed
C1_Witness ==
  \E t \in Threads :
    /\ pc[t] = "register"
    /\ Head(frame[t].groups) = "client"
    /\ attempts["clientOpsCounter"] = 1
    /\ built["clientTimeCounterHistogram"] = 1
    /\ \E u \in Threads \ {t} : pc[u] = "lock"

C3_OneObservationPerInvocation ==
  [][InvokeStep =>
       LET r   == last'
           g   == GroupOfShape(r.shape)
           sm  == SlotsOf(g)[2]
           h   == SlotsOf(g)[3]
           lvs == TupleOf(r)
       IN  /\ ObsAt(slot'[sm], lvs) = ObsAt(slot[sm], lvs) + 1
           /\ ObsAt(slot'[h], lvs) = ObsAt(slot[h], lvs) + 1
           /\ OtherSamplesKept(sm, lvs)
           /\ OtherSamplesKept(h, lvs)
           /\ \A s \in SlotNames \ (OpsSlots \cup {sm, h}) : slot'[s] = slot[s]
           /\ SumAt(slot'[sm], lvs) - SumAt(slot[sm], lvs) =
                1000000 * (SumAt(slot'[h], lvs) - SumAt(slot[h], lvs)) ]_vars

\* the wrapped operation of a Publish panicked and its latency was recorded
C3_Witness ==
  /\ last.shape = "Publish"
  /\ last.wrapped.kind = "panic"
  /\ ObsAt(slot["publishTimeCounterSummary"], TupleOf(last)) >= 1
  /\ ObsAt(slot["publishTimeCounterHistogram"], TupleOf(last)) >= 1

\* C4: the decorated operation passes the arguments it was given to the wrapped
\* operation and hands back exactly what the wrapped operation did: its value and
\* error (for Stream the stream handle and the error), or its panic.
C4_PassThrough ==
  last.shape # Nil => last.passed = last.given /\ last.returned = last.wrapped

\* a Stream whose wrapped operation failed handed that error back
C4_Witness ==
  /\ last.shape = "Stream"
  /\ last.wrapped.err = "error"
  /\ last.returned.err = "error"

\* C5: after an AlreadyRegisteredError the registration loop goes on to its next
\* collector or the register function returns, any other registration error
\* ends the process there, and once the process has ended nothing changes: no
\* constructor returns and no invocation runs.
C5_FatalUnlessAlreadyRegistered ==
  /\ [](/\ exited <=> \E t \in Threads : frame[t].err = "error"
        /\ \A t \in Threads : frame[t].err = "error" => pc[t] = "register"
        /\ \A t \in Threads :
             frame[t].err = "AlreadyRegisteredError" /\ pc[t] = "register" => frame[t].i > 1)
  /\ [][exited => UNCHANGED vars]_vars

\* a constructor has returned a wrapper and a later registration was fatal
C5_Witness ==
  /\ exited
  /\ wrappers # {}
  /\ \E t \in Threads : frame[t].err = "error"

\* C6 as stated: Register is attempted at most once per family.
C6_AtMostOneAttempt == \A s \in SlotNames : attempts[s] <= 1

\* C6 amended: Register returns nil at most once per family, and only for a
\* family that is constructed; it is attempted by the constructors only (on every
\* construction of a wrapper of the group), never by an invocation.
C6_AtMostOneRegistration ==
  /\ [](\A s \in SlotNames :
          /\ registered[s] <= 1
          /\ attempts[s] >= 1 => slot[s] # NilVec)
  /\ [][InvokeStep => attempts' = attempts /\ registered' = registered
                        /\ registry' = registry]_vars

\* Register was attempted twice for a family and returned nil once
C6_Witness ==
  /\ attempts["serverOpsCounter"] = 2
  /\ registered["serverOpsCounter"] = 1

\* C7: a family that is constructed keeps its name and its label names whatever
\* the prefixes are set to and whichever constructors run afterwards, and the
\* registry never holds two descriptors registered for one family slot.
C7_PrefixReadAtConstruction ==
  /\ [](\A s \in SlotNames :
          Cardinality({n \in DOMAIN registry : registry[n].id[1] = s}) <= 1)
  /\ [][\A s \in SlotNames :
          slot[s] # NilVec =>
            /\ slot'[s] # NilVec
            /\ slot'[s].name = slot[s].name
            /\ slot'[s].labels = slot[s].labels]_vars

\* a second constructor of the subscribe group ran its registration after both
\* prefixes were changed, and the family still has the name and labels it was built with
C7_Witness ==
  /\ attempts["subscribeOpsCounter"] = 2
  /\ DefaultMetricPrefix # "micro_"
  /\ DefaultLabelPrefix # "micro_"
  /\ slot["subscribeOpsCounter"].name = "micro_subscribe_message_total"
  /\ slot["subscribeOpsCounter"].labels[1] = "micro_name"

\* C8 as stated: a construction that finds the families of its group constructed
\* does not acquire the mutex.
C8_NoLockWhenConstructed ==
  [][\A t \in Threads :
       pc[t] = "lock" /\ (\A i \in 1..3 : slot[SlotsOf(Head(frame[t].groups))[i]] # NilVec)
         => ~(mu # t /\ mu' = t)]_vars

\* C8 amended: every register function acquires the mutex first, whether or not
\* the families are constructed; the nil checks, the constructions and the
\* registrations all happen under the mutex, and it is released on return.
C8_AlwaysLocked ==
  /\ [](\A t \in Threads : pc[t] \in {"check", "construct", "register"} <=> mu = t)
  /\ [][\A t \in Threads :
          /\ pc[t] = "lock" /\ pc'[t] # "lock" => mu = NoThread /\ mu' = t
          /\ pc[t] = "register" /\ pc'[t] # "register" => mu' = NoThread]_vars

\* a register function holds the mutex although it found its three families constructed
C8_Witness ==
  \E t \in Threads :
    /\ pc[t] = "register"
    /\ mu = t
    /\ \A i \in 1..3 : built[SlotsOf(Head(frame[t].groups))[i]] = 1
    /\ attempts[SlotsOf(Head(frame[t].groups))[1]] = 1

\* C9: the families every decorated operation of a returned wrapper touches are
\* constructed, and no invocation panicked on a nil family.
C9_NoNilFamily ==
  /\ \A w \in wrappers : \A g \in EnsuredBy(w.ctor) :
       \A i \in 1..3 : slot[SlotsOf(g)[i]] # NilVec
  /\ \A w \in wrappers : \A shape \in ShapesOf(w.ctor) : GroupOfShape(shape) \in EnsuredBy(w.ctor)
  /\ last.shape # Nil => last.returned # DecoratorPanic

\* a Publish ran through the wrapper of NewClientWrapper while another
\* constructor was under way
C9_Witness ==
  /\ last.shape = "Publish"
  /\ last.returned.kind = "return"
  /\ \E t \in Threads : pc[t] \in {"check", "construct", "register"}

\* C10: under fair scheduling every constructor call returns, unless a
\* registration ended the process.
C10_ConstructorsReturn ==
  \A t \in Threads : (pc[t] # "idle") ~> (pc[t] = "idle" \/ exited)

\* NewClientWrapper waits for the mutex a second time, for the publish group,
\* while another constructor holds it
C10_Witness ==
  \E t \in Threads :
    /\ pc[t] = "lock"
    /\ frame[t].ctor = "NewClientWrapper"
    /\ frame[t].groups = <<"publish">>
    /\ mu \in Threads \ {t}
====
